---------------------------- MODULE Spec2Model ----------------------------
(***************************************************************************)
(* Proof-of-stake kernel checks of src/pos/kernel.cpp: CheckStakeKernelHash,*)
(* CheckProofOfStake, CheckKernel and GetPoSKernelPS.                       *)
(*                                                                         *)
(* Widths are scaled: arith_uint256 is an unsigned integer of WidthBytes   *)
(* "bytes" of ByteBits bits each (256 bits = 32 bytes of 8 bits in the     *)
(* program), and the compact encoding keeps its layout (one size byte,     *)
(* three mantissa bytes whose top bit is the sign).                        *)
(***************************************************************************)
EXTENDS Integers, Sequences, FiniteSets, TLC

VARIABLES
    m_chain,        \* chain_state.m_chain: m_chain[h + 1] is the block index at height h
    coinsTip,       \* chain_state.CoinsTip(): outpoint -> Coin or NoCoin
    spentCache,     \* block tree db spent cache: outpoint -> SpentCoin or NoCoin
    fVerifyingDB,   \* global flag set while the block database is verified
    req,            \* the call being made (its arguments)
    res,            \* what the finished call returned and left in its out-parameters
    cs_main,        \* holder of the chain-wide mutex, or "free"
    staker,         \* the staking thread inside CheckKernel: position and locals
    writer,         \* the block-connection thread: position and number of writes done
    ps              \* GetPoSKernelPS: position and locals of its loop

vars == <<m_chain, coinsTip, spentCache, fVerifyingDB, req, res, cs_main, staker, writer, ps>>

---------------------------------------------------------------------------
\* Bounds of the model

ByteBits == 2
WidthBytes == 3
MaxHeight == 4
MaxWrites == 2
MaxChainLen == 76

Base == 2 ^ ByteBits
\* 2^256 in the program: one more than the largest arith_uint256
UintMod == Base ^ WidthBytes

---------------------------------------------------------------------------
\* Program constants

nPoSInterval == 72
DOS_100 == 100
DOS_20 == 20
DOS_1 == 1
\* MAX_REORG_DEPTH and Params().GetStakeMinConfirmations() are set outside
\* kernel.cpp; the model uses small stand-ins.
MAX_REORG_DEPTH == 2
StakeMinConfirmations == 3
\* Params().GetStakeTimestampMask(nHeight)
StakeTimestampMask == 15

OUTPUT_STANDARD == "OUTPUT_STANDARD"
OUTPUT_CT == "OUTPUT_CT"
OUTPUT_DATA == "OUTPUT_DATA"
BLOCK_STAKE_KERNEL_SPENT == "BLOCK_STAKE_KERNEL_SPENT"

NoCoin == [none |-> TRUE]
NullIndex == [null |-> TRUE]
NoTx == [notx |-> TRUE]

Min(a, b) == IF a < b THEN a ELSE b

---------------------------------------------------------------------------
\* Collaborators outside kernel.cpp

\* CChain::operator[]: the block index at that height of the active chain,
\* nullptr when the height is outside it.
ChainAt(chain, nHeight) ==
    IF nHeight >= 0 /\ nHeight < Len(chain) THEN chain[nHeight + 1] ELSE NullIndex

\* CCoinsViewCache::GetCoin: whether the view holds an entry for the outpoint.
GetCoin(view, prevout) == view[prevout] # NoCoin

\* CBlockTreeDB::ReadSpentCache
ReadSpentCache(cache, prevout) == cache[prevout] # NoCoin

\* HasIsCoinstakeOp: the script carries the coinstake-op pattern.
HasIsCoinstakeOp(script) == script \in {"cs_a", "cs_b"}

\* VerifyScript: a scriptSig names the scriptPubKey it satisfies.
VerifyScript(scriptSig, scriptPubKey) == scriptSig = scriptPubKey

\* Hash(ss) of the serialized kernel preimage, a stand-in that mixes every
\* field of the preimage into a value of the uint256 range.
Hash(bnStakeModifier, nBlockFromTime, prevout, nTime) ==
    (17 * bnStakeModifier + 7 * nBlockFromTime + 13 * prevout.hash
        + 11 * prevout.n + 29 * nTime + 5) % UintMod

\* arith_uint256::SetCompact on the scaled layout:
\* nBits = nSize * Base^3 + sign * Base^3 / 2 + nWord.
SetCompact(nBits) ==
    LET nSize == nBits \div (Base ^ 3)
        word0 == nBits % ((Base ^ 3) \div 2)
        sign == (nBits \div ((Base ^ 3) \div 2)) % 2
        nWord == IF nSize <= 3 THEN word0 \div (Base ^ (3 - nSize)) ELSE word0
        value == IF nSize <= 3 THEN nWord
                 ELSE (nWord * (Base ^ (nSize - 3))) % UintMod
    IN  [bnTarget |-> value,
         fNegative |-> (nWord # 0 /\ sign = 1),
         fOverflow |-> (nWord # 0 /\ (\/ nSize > WidthBytes + 2
                                      \/ (nWord > Base - 1 /\ nSize > WidthBytes + 1)
                                      \/ (nWord > Base ^ 2 - 1 /\ nSize > WidthBytes)))]

\* The compact encoding of mantissa nWord, exponent nSize and sign bit.
Compact(nSize, sign, nWord) == nSize * (Base ^ 3) + sign * ((Base ^ 3) \div 2) + nWord

---------------------------------------------------------------------------
\* CheckStakeKernelHash

\* bnTarget *= bnWeight on arith_uint256: the product in the register's width.
MulWrap(bnTarget, bnWeight) == (bnTarget * bnWeight) % UintMod

\* line 132: if (nTime < nBlockFromTime)
KernelTimeBeforeBlockFromTime(nTime, nBlockFromTime) == nTime < nBlockFromTime

\* line 172: if (UintToArith256(hashProofOfStake) > bnTarget)
HashAboveTarget(hash, bnTarget) == hash > bnTarget

CheckStakeKernelHash(pindexPrev, nBits, nBlockFromTime, prevOutAmount, prevout, nTime) ==
    LET sc == SetCompact(nBits)
        bnTarget == MulWrap(sc.bnTarget, prevOutAmount)
        hash == Hash(pindexPrev.bnStakeModifier, nBlockFromTime, prevout, nTime)
    IN  IF KernelTimeBeforeBlockFromTime(nTime, nBlockFromTime)
        THEN [ret |-> FALSE, log |-> "nTime violation",
              hashProofOfStake |-> 0, targetProofOfStake |-> 0]
        ELSE IF sc.fNegative \/ sc.fOverflow \/ sc.bnTarget = 0
        THEN [ret |-> FALSE, log |-> "SetCompact failed.",
              hashProofOfStake |-> 0, targetProofOfStake |-> 0]
        ELSE IF HashAboveTarget(hash, bnTarget)
        THEN [ret |-> FALSE, log |-> "",
              hashProofOfStake |-> hash, targetProofOfStake |-> bnTarget]
        ELSE [ret |-> TRUE, log |-> "",
              hashProofOfStake |-> hash, targetProofOfStake |-> bnTarget]

---------------------------------------------------------------------------
\* CheckProofOfStake

\* BlockValidationState as the caller hands it in.
FreshState == [dos |-> 0, reason |-> "", nFlags |-> {}]

\* state.Invalid(result, reason): records the rejection, returns false.
Invalid(state, dos, reason) ==
    [ret |-> FALSE, state |-> [state EXCEPT !.dos = dos, !.reason = reason],
     hashProofOfStake |-> 0, targetProofOfStake |-> 0]

\* lines 255-257: the archived kernel was spent too far below pindexPrev.
SpentTooDeepGE(verifying, pindexPrev, spent_coin) ==
    /\ ~verifying
    /\ pindexPrev.nHeight > spent_coin.spent_height
    /\ pindexPrev.nHeight - spent_coin.spent_height >= MAX_REORG_DEPTH
SpentTooDeep(verifying, pindexPrev, spent_coin) ==
    /\ ~verifying
    /\ pindexPrev.nHeight > spent_coin.spent_height
    /\ pindexPrev.nHeight - spent_coin.spent_height > MAX_REORG_DEPTH

\* lines 248-263: the kernel coin from the live view, else from the spent cache.
\* status is "live", "spent" (taken from the spent cache) or the rejection.
ResolveKernelCoin(view, cache, verifying, pindexPrev, prevout) ==
    IF GetCoin(view, prevout) /\ ~view[prevout].fSpent
    THEN [status |-> "live", coin |-> view[prevout]]
    ELSE IF ~ReadSpentCache(cache, prevout)
    THEN [status |-> "prevout-not-found", coin |-> NoCoin]
    ELSE IF SpentTooDeep(verifying, pindexPrev, cache[prevout])
    THEN [status |-> "invalid-prevout", coin |-> NoCoin]
    ELSE [status |-> "spent", coin |-> cache[prevout].coin]

\* lines 275-277: nRequiredDepth > nDepth in CheckProofOfStake.
StakeDepthTooLowGE(pindexPrev, coin) ==
    LET nDepth == pindexPrev.nHeight - coin.nHeight
        nRequiredDepth == Min(StakeMinConfirmations - 1, pindexPrev.nHeight \div 2)
    IN  nRequiredDepth >= nDepth
StakeDepthTooLow(pindexPrev, coin) ==
    LET nDepth == pindexPrev.nHeight - coin.nHeight
        nRequiredDepth == Min(StakeMinConfirmations - 1, pindexPrev.nHeight \div 2)
    IN  nRequiredDepth > nDepth

\* lines 309-330: the extra inputs vin[k], k >= 1, from index k on (k is
\* 1-based here: vin[1] is the kernel input). Returns the rejection or the
\* accumulated amount.
RECURSIVE SumExtraInputs(_, _, _, _, _, _)
SumExtraInputs(view, cache, tx, kernelPubKey, k, amount) ==
    IF k > Len(tx.vin)
    THEN [ok |-> TRUE, amount |-> amount, dos |-> 0, reason |-> ""]
    ELSE LET prevout == tx.vin[k].prevout
             live == GetCoin(view, prevout) /\ ~view[prevout].fSpent
         IN  IF ~live /\ ~ReadSpentCache(cache, prevout)
             THEN [ok |-> FALSE, amount |-> amount,
                   dos |-> DOS_20, reason |-> "prevout-not-in-chain"]
             ELSE LET coin == IF live THEN view[prevout] ELSE cache[prevout].coin
                  IN  IF coin.nType # OUTPUT_STANDARD
                      THEN [ok |-> FALSE, amount |-> amount,
                            dos |-> DOS_100, reason |-> "invalid-prevout"]
                      ELSE IF kernelPubKey # coin.out.scriptPubKey
                      THEN [ok |-> FALSE, amount |-> amount,
                            dos |-> DOS_100, reason |-> "mixed-prevout-scripts"]
                      ELSE SumExtraInputs(view, cache, tx, kernelPubKey, k + 1,
                                          amount + coin.out.nValue)

\* lines 332-346: the outputs from index i on. Returns the rejection or nVerify.
RECURSIVE SumOutputs(_, _, _, _)
SumOutputs(tx, kernelPubKey, i, nVerify) ==
    IF i > Len(tx.vpout)
    THEN [ok |-> TRUE, nVerify |-> nVerify]
    ELSE LET txout == tx.vpout[i]
         IN  IF txout.nType # OUTPUT_STANDARD
             THEN IF txout.nType # OUTPUT_DATA
                  THEN [ok |-> FALSE, nVerify |-> nVerify]
                  ELSE SumOutputs(tx, kernelPubKey, i + 1, nVerify)
             ELSE IF txout.scriptPubKey = kernelPubKey
                  THEN SumOutputs(tx, kernelPubKey, i + 1, nVerify + txout.nValue)
                  ELSE SumOutputs(tx, kernelPubKey, i + 1, nVerify)

\* line 348: if (nVerify < amount)
VerifyAmountShortLE(nVerify, amount) == nVerify <= amount
VerifyAmountShort(nVerify, amount) == nVerify < amount

\* lines 307-352
CheckCoinstakeOpSplit(view, cache, state, tx, kernelPubKey, amount0, proof) ==
    LET ins == SumExtraInputs(view, cache, tx, kernelPubKey, 2, amount0)
        outs == SumOutputs(tx, kernelPubKey, 1, 0)
    IN  IF ~ins.ok THEN Invalid(state, ins.dos, ins.reason)
        ELSE IF ~outs.ok THEN Invalid(state, DOS_100, "bad-output-type")
        ELSE IF VerifyAmountShort(outs.nVerify, ins.amount)
        THEN Invalid(state, DOS_100, "verify-amount-script-failed")
        ELSE [ret |-> TRUE, state |-> state,
              hashProofOfStake |-> proof.hashProofOfStake,
              targetProofOfStake |-> proof.targetProofOfStake]

\* lines 264-355, once the kernel coin is resolved.
CheckResolvedKernel(chain, view, cache, state, pindexPrev, tx, nTime, nBits, coin) ==
    LET txin == tx.vin[1]
        pindex == ChainAt(chain, coin.nHeight)
        kernelPubKey == coin.out.scriptPubKey
        amount == coin.out.nValue
    IN  IF coin.nType # OUTPUT_STANDARD THEN Invalid(state, DOS_100, "invalid-prevout")
        ELSE IF pindex = NullIndex THEN Invalid(state, DOS_100, "invalid-prevout")
        ELSE IF StakeDepthTooLow(pindexPrev, coin)
        THEN Invalid(state, DOS_100, "invalid-stake-depth")
        ELSE IF ~VerifyScript(txin.scriptSig, kernelPubKey)
        THEN Invalid(state, DOS_100, "verify-cs-script-failed")
        ELSE LET proof == CheckStakeKernelHash(pindexPrev, nBits, pindex.nTime,
                                               amount, txin.prevout, nTime)
             IN  IF ~proof.ret
                 THEN [ret |-> FALSE,
                       state |-> [state EXCEPT !.dos = DOS_1,
                                               !.reason = "check-kernel-failed"],
                       hashProofOfStake |-> proof.hashProofOfStake,
                       targetProofOfStake |-> proof.targetProofOfStake]
                 ELSE IF HasIsCoinstakeOp(kernelPubKey)
                 THEN CheckCoinstakeOpSplit(view, cache, state, tx, kernelPubKey,
                                            amount, proof)
                 ELSE [ret |-> TRUE, state |-> state,
                       hashProofOfStake |-> proof.hashProofOfStake,
                       targetProofOfStake |-> proof.targetProofOfStake]

\* line 262: state.nFlags |= BLOCK_STAKE_KERNEL_SPENT
FlagKernelSpent(state) == [state EXCEPT !.nFlags = @ \cup {BLOCK_STAKE_KERNEL_SPENT}]

\* lines 224-355
CheckProofOfStake(chain, view, cache, verifying, state, pindexPrev, tx, nTime, nBits) ==
    IF ~tx.fCoinStake \/ Len(tx.vin) < 1
    THEN Invalid(state, DOS_100, "malformed-txn")
    ELSE LET r == ResolveKernelCoin(view, cache, verifying, pindexPrev, tx.vin[1].prevout)
         IN  CASE r.status = "prevout-not-found" ->
                     Invalid(state, DOS_20, "prevout-not-found")
               [] r.status = "invalid-prevout" ->
                     Invalid(state, DOS_100, "invalid-prevout")
               [] r.status = "spent" ->
                     CheckResolvedKernel(chain, view, cache, FlagKernelSpent(state),
                                         pindexPrev, tx, nTime, nBits, r.coin)
               [] OTHER ->
                     CheckResolvedKernel(chain, view, cache, state,
                                         pindexPrev, tx, nTime, nBits, r.coin)

---------------------------------------------------------------------------
\* CheckKernel

\* lines 388-391: nRequiredDepth > nDepth in CheckKernel.
KernelDepthTooLow(pindexPrev, coin) ==
    LET nRequiredDepth == Min(StakeMinConfirmations - 1, pindexPrev.nHeight \div 2)
        nDepth == pindexPrev.nHeight - coin.nHeight
    IN  nRequiredDepth > nDepth

\* lines 376-400, on the coin read at line 372 and the block index read at
\* line 383. pBlockTime is the caller's variable; it is written at line 395.
CheckKernelTail(pindexPrev, nBits, nTime, prevout, coin, pindex) ==
    IF coin.nType # OUTPUT_STANDARD THEN [ret |-> FALSE, fBlockTimeSet |-> FALSE, nBlockTime |-> 0]
    ELSE IF coin.fSpent THEN [ret |-> FALSE, fBlockTimeSet |-> FALSE, nBlockTime |-> 0]
    ELSE IF pindex = NullIndex THEN [ret |-> FALSE, fBlockTimeSet |-> FALSE, nBlockTime |-> 0]
    ELSE IF KernelDepthTooLow(pindexPrev, coin)
    THEN [ret |-> FALSE, fBlockTimeSet |-> FALSE, nBlockTime |-> 0]
    ELSE [ret |-> CheckStakeKernelHash(pindexPrev, nBits, pindex.nTime,
                                       coin.out.nValue, prevout, nTime).ret,
          fBlockTimeSet |-> TRUE, nBlockTime |-> pindex.nTime]

\* lines 365-401, run without interruption
CheckKernel(chain, view, pindexPrev, nBits, nTime, prevout) ==
    IF ~GetCoin(view, prevout)
    THEN [ret |-> FALSE, fBlockTimeSet |-> FALSE, nBlockTime |-> 0]
    ELSE CheckKernelTail(pindexPrev, nBits, nTime, prevout, view[prevout],
                         ChainAt(chain, view[prevout].nHeight))

---------------------------------------------------------------------------
\* The calls and the chain states they are made in

NoRes == [nores |-> TRUE]
IdleStaker == [pc |-> "idle"]
IdleWriter == [pc |-> "idle", nWrites |-> 0]
IdlePS == [pc |-> "idle"]

\* nTime of the block at height h
BlockTime(h) == h + 1

\* nBits of a block index, in the program's 32-bit layout: 0x1d00ffff
\* (difficulty 1) and 0x1c00ffff (difficulty 256).
BitsDiff1 == 29 * (2 ^ 24) + 65535
BitsDiff256 == 28 * (2 ^ 24) + 65535

\* The block index at height h.
MkBlock(h) ==
    [nHeight |-> h, nTime |-> BlockTime(h), nBits |-> BitsDiff1,
     fProofOfStake |-> TRUE, bnStakeModifier |-> (5 * h + 3) % UintMod]

MkChain(nTip) == [i \in 1..(nTip + 1) |-> MkBlock(i - 1)]

MkCoin(nType, nHeight, nValue, script, fSpent) ==
    [out |-> [nValue |-> nValue, scriptPubKey |-> script],
     nType |-> nType, nHeight |-> nHeight, fSpent |-> fSpent]

\* Outpoints: the kernel's and two extra inputs'.
KernelOut == [hash |-> 1, n |-> 0]
ExtraOut1 == [hash |-> 1, n |-> 1]
ExtraOut2 == [hash |-> 2, n |-> 0]
Outpoints == {KernelOut, ExtraOut1, ExtraOut2}

TxIn(prevout, scriptSig) == [prevout |-> prevout, scriptSig |-> scriptSig]
TxOut(nType, script, nValue) == [nType |-> nType, scriptPubKey |-> script, nValue |-> nValue]

\* Where an outpoint's coin is: unspent in the live view; in the live view
\* flagged spent and archived; only archived; nowhere.
Placements == {"live", "spentflag", "archived", "none"}

ViewEntry(place, coin) ==
    CASE place = "live" -> coin
      [] place = "spentflag" -> [coin EXCEPT !.fSpent = TRUE]
      [] OTHER -> NoCoin

CacheEntry(place, coin, spent_height) ==
    IF place \in {"spentflag", "archived"}
    THEN [coin |-> coin, spent_height |-> spent_height]
    ELSE NoCoin

\* A time later than every block's, and the time of the first block.
LateTime == MaxHeight + 2
EarlyTime == 1

\* A target every kernel hash of the model meets at value 1 or 2.
EasyBits == Compact(WidthBytes, 0, (Base ^ 3) \div 2 - 1)

\* Compact encodings: zero, small, large, negative and overflowing targets.
BitsSet ==
    { Compact(nSize, sign, nWord) :
        nSize \in {2, 3, WidthBytes, WidthBytes + 1, WidthBytes + 3},
        sign \in {0, 1},
        nWord \in {0, 1, Base, Base ^ 2} }

SimpleTx(script) ==
    [fCoinStake |-> TRUE, vin |-> <<TxIn(KernelOut, script)>>,
     vpout |-> <<TxOut(OUTPUT_STANDARD, script, 1)>>]

PosReq(pindexPrev, tx, nTime, nBits) ==
    [kind |-> "CheckProofOfStake", pindexPrev |-> pindexPrev, tx |-> tx,
     nTime |-> nTime, nBits |-> nBits, prevout |-> KernelOut, fBlockTimePtr |-> TRUE]

KernelReq(pindexPrev, nTime, nBits, fPtr) ==
    [kind |-> "CheckKernel", pindexPrev |-> pindexPrev, tx |-> NoTx,
     nTime |-> nTime, nBits |-> nBits, prevout |-> KernelOut, fBlockTimePtr |-> fPtr]

LiveUnspentIn(view, o) == view[o] # NoCoin /\ ~view[o].fSpent

Idle ==
    /\ cs_main = "free"
    /\ staker = IdleStaker
    /\ writer = IdleWriter
    /\ ps = IdlePS

\* Chain states and calls that exercise coin resolution, the reorg bound, the
\* depth rule and the structural checks.
InitResolve ==
    \E nTip \in {MaxHeight - 1, MaxHeight}, hp \in 0..MaxHeight, verifying \in BOOLEAN,
       place \in Placements, nType \in {OUTPUT_STANDARD, OUTPUT_CT},
       hc \in 0..MaxHeight, sh \in 0..MaxHeight :
        /\ place = "live" => (hc <= nTip /\ sh = 0)
        /\ place = "none" => (hc = 0 /\ sh = 0 /\ nType = OUTPUT_STANDARD)
        /\ place \in {"spentflag", "archived"} => hc <= sh
        /\ LET coin == MkCoin(nType, hc, 1, "pkh", FALSE)
           IN  /\ m_chain = MkChain(nTip)
               /\ fVerifyingDB = verifying
               /\ coinsTip = [o \in Outpoints |->
                                IF o = KernelOut THEN ViewEntry(place, coin) ELSE NoCoin]
               /\ spentCache = [o \in Outpoints |->
                                IF o = KernelOut THEN CacheEntry(place, coin, sh) ELSE NoCoin]
        /\ \/ \E tx \in { SimpleTx("pkh"),
                          [SimpleTx("pkh") EXCEPT !.fCoinStake = FALSE],
                          [SimpleTx("pkh") EXCEPT !.vin = <<>>],
                          [SimpleTx("pkh") EXCEPT !.vin = <<TxIn(KernelOut, "other")>>] } :
                req = PosReq(MkBlock(hp), tx, LateTime, EasyBits)
           \/ \E fPtr \in BOOLEAN :
                req = KernelReq(MkBlock(hp), LateTime, EasyBits, fPtr)

\* Chain states and calls that exercise the kernel hash check: times, compact
\* targets and stake amounts.
MaxValue == 5

InitKernelHash ==
    \E hp \in {MaxHeight - 1, MaxHeight}, hc \in {0, 1}, nValue \in 1..MaxValue,
       nBits \in BitsSet \cup {EasyBits}, nTime \in {EarlyTime, LateTime, LateTime + 1} :
        /\ m_chain = MkChain(MaxHeight)
        /\ fVerifyingDB = FALSE
        /\ coinsTip = [o \in Outpoints |->
                        IF o = KernelOut
                        THEN MkCoin(OUTPUT_STANDARD, hc, nValue, "pkh", FALSE)
                        ELSE NoCoin]
        /\ spentCache = [o \in Outpoints |-> NoCoin]
        /\ \/ req = PosReq(MkBlock(hp), SimpleTx("pkh"), nTime, nBits)
           \/ \E fPtr \in BOOLEAN : req = KernelReq(MkBlock(hp), nTime, nBits, fPtr)

\* Coinstakes and chain states that exercise the coinstake-op output split.
MaxOuts == 2

SplitOuts ==
    { TxOut(OUTPUT_STANDARD, "cs_a", 1), TxOut(OUTPUT_STANDARD, "cs_a", 3),
      TxOut(OUTPUT_STANDARD, "cs_b", 2), TxOut(OUTPUT_DATA, "", 0),
      TxOut(OUTPUT_CT, "cs_a", 0) }

SplitVpouts == UNION { [1..n -> SplitOuts] : n \in 0..MaxOuts }

InitSplit ==
    \E kscript \in {"cs_a", "pkh"}, kvalue \in {1, 2}, nIn \in 1..3,
       vpout \in SplitVpouts,
       place1 \in {"live", "archived", "none"}, type1 \in {OUTPUT_STANDARD, OUTPUT_CT},
       script1 \in {"cs_a", "cs_b"}, value1 \in {1, 2},
       place2 \in {"live", "none"}, script2 \in {"cs_a", "cs_b"} :
        /\ place1 = "none" => (type1 = OUTPUT_STANDARD /\ script1 = "cs_a" /\ value1 = 1)
        /\ place2 = "none" => script2 = "cs_a"
        /\ m_chain = MkChain(MaxHeight)
        /\ fVerifyingDB = FALSE
        /\ LET coin1 == MkCoin(type1, 1, value1, script1, FALSE)
               coin2 == MkCoin(OUTPUT_STANDARD, 1, 1, script2, FALSE)
           IN  /\ coinsTip = [o \in Outpoints |->
                    CASE o = KernelOut -> MkCoin(OUTPUT_STANDARD, 0, kvalue, kscript, FALSE)
                      [] o = ExtraOut1 -> ViewEntry(place1, coin1)
                      [] OTHER -> ViewEntry(place2, coin2)]
               /\ spentCache = [o \in Outpoints |->
                    IF o = ExtraOut1 THEN CacheEntry(place1, coin1, 2) ELSE NoCoin]
        /\ req = PosReq(MkBlock(MaxHeight),
                        [fCoinStake |-> TRUE,
                         vin |-> SubSeq(<<TxIn(KernelOut, kscript), TxIn(ExtraOut1, "cs_a"),
                                          TxIn(ExtraOut2, "cs_a")>>, 1, nIn),
                         vpout |-> vpout],
                        LateTime, EasyBits)

Init ==
    /\ res = NoRes
    /\ Idle
    /\ (InitResolve \/ InitKernelHash \/ InitSplit)

\* The validator is called on the coinstake of a block.
DoCheckProofOfStake ==
    /\ req.kind = "CheckProofOfStake"
    /\ res = NoRes
    /\ res' = CheckProofOfStake(m_chain, coinsTip, spentCache, fVerifyingDB, FreshState,
                                req.pindexPrev, req.tx, req.nTime, req.nBits)
    /\ UNCHANGED <<m_chain, coinsTip, spentCache, fVerifyingDB, req, cs_main, staker, writer, ps>>

\* The staking loop probes a kernel, with no other thread running. Line 399
\* reads *pBlockTime whether or not the caller passed a pointer: without one
\* the read is of a null pointer and any outcome may follow.
DoCheckKernel ==
    /\ req.kind = "CheckKernel"
    /\ res = NoRes
    /\ LET r == CheckKernel(m_chain, coinsTip, req.pindexPrev, req.nBits, req.nTime, req.prevout)
       IN  IF r.fBlockTimeSet /\ ~req.fBlockTimePtr
           THEN \E ret \in BOOLEAN, fCrash \in BOOLEAN :
                    res' = [ret |-> ret, fBlockTimeSet |-> FALSE, nBlockTime |-> 0,
                            fUndefined |-> TRUE, fCrash |-> fCrash]
           ELSE res' = [ret |-> r.ret,
                        fBlockTimeSet |-> r.fBlockTimeSet /\ req.fBlockTimePtr,
                        nBlockTime |-> r.nBlockTime,
                        fUndefined |-> FALSE, fCrash |-> FALSE]
    /\ UNCHANGED <<m_chain, coinsTip, spentCache, fVerifyingDB, req, cs_main, staker, writer, ps>>

Next == DoCheckProofOfStake \/ DoCheckKernel

Spec == Init /\ [][Next]_vars

---------------------------------------------------------------------------
\* CheckKernel step by step, beside the block-connection thread

\* The staking thread calls CheckKernel on the tip while blocks are connected
\* and disconnected by the thread that owns block connection.
InitConc ==
    \E hc \in 0..MaxHeight, nTime \in {LateTime, LateTime + 1} :
        /\ m_chain = MkChain(MaxHeight)
        /\ coinsTip = [o \in Outpoints |->
                        IF o = KernelOut
                        THEN MkCoin(OUTPUT_STANDARD, hc, 1, "pkh", FALSE)
                        ELSE NoCoin]
        /\ spentCache = [o \in Outpoints |-> NoCoin]
        /\ fVerifyingDB = FALSE
        /\ req = KernelReq(MkBlock(MaxHeight), nTime, EasyBits, TRUE)
        /\ res = NoRes
        /\ cs_main = "free"
        /\ staker = [pc |-> "start"]
        /\ writer = IdleWriter
        /\ ps = IdlePS

KernelReturn(r) ==
    res' = [ret |-> r.ret, fBlockTimeSet |-> r.fBlockTimeSet, nBlockTime |-> r.nBlockTime,
            fUndefined |-> FALSE, fCrash |-> FALSE]

\* line 371: LOCK(::cs_main)
K_Lock ==
    /\ staker.pc = "start"
    /\ cs_main = "free"
    /\ cs_main' = "staker"
    /\ staker' = [pc |-> "locked"]
    /\ UNCHANGED <<m_chain, coinsTip, spentCache, fVerifyingDB, req, res, writer, ps>>

\* lines 372-375: GetCoin under the lock; the lock is released at the end of
\* the block, or by the return.
K_GetCoin ==
    /\ staker.pc = "locked"
    /\ cs_main' = "free"
    /\ IF ~GetCoin(coinsTip, req.prevout)
       THEN /\ staker' = [pc |-> "done"]
            /\ KernelReturn([ret |-> FALSE, fBlockTimeSet |-> FALSE, nBlockTime |-> 0])
       ELSE /\ staker' = [pc |-> "unlocked", coin |-> coinsTip[req.prevout],
                          fLockedAtCoin |-> (cs_main = "staker"),
                          nWritesAtCoin |-> writer.nWrites]
            /\ res' = res
    /\ UNCHANGED <<m_chain, coinsTip, spentCache, fVerifyingDB, req, writer, ps>>

\* lines 376-386: the type and spent checks, then chain_state.m_chain[coin.nHeight]
K_ChainLookup ==
    /\ staker.pc = "unlocked"
    /\ IF staker.coin.nType # OUTPUT_STANDARD \/ staker.coin.fSpent
       THEN /\ staker' = [pc |-> "done"]
            /\ KernelReturn([ret |-> FALSE, fBlockTimeSet |-> FALSE, nBlockTime |-> 0])
       ELSE /\ staker' = [staker EXCEPT !.pc = "have_index"] @@
                         [pindex |-> ChainAt(m_chain, staker.coin.nHeight),
                          fLockedAtIndex |-> (cs_main = "staker"),
                          nWritesAtIndex |-> writer.nWrites,
                          fWriterInside |-> (writer.pc = "wrote")]
            /\ res' = res
    /\ UNCHANGED <<m_chain, coinsTip, spentCache, fVerifyingDB, req, cs_main, writer, ps>>

\* lines 384-400: the null check, the depth rule and the kernel hash
K_Finish ==
    /\ staker.pc = "have_index"
    /\ staker' = [staker EXCEPT !.pc = "done"]
    /\ KernelReturn(CheckKernelTail(req.pindexPrev, req.nBits, req.nTime, req.prevout,
                                    staker.coin, staker.pindex))
    /\ UNCHANGED <<m_chain, coinsTip, spentCache, fVerifyingDB, req, cs_main, writer, ps>>

\* The block-connection thread takes the mutex.
W_Lock ==
    /\ staker.pc # "idle"
    /\ writer.pc = "idle"
    /\ writer.nWrites < MaxWrites
    /\ cs_main = "free"
    /\ cs_main' = "writer"
    /\ writer' = [writer EXCEPT !.pc = "locked"]
    /\ UNCHANGED <<m_chain, coinsTip, spentCache, fVerifyingDB, req, res, staker, ps>>

\* The tip is disconnected: coins it created leave the view, coins it spent return.
W_DisconnectTip ==
    /\ writer.pc = "locked"
    /\ Len(m_chain) > 1
    /\ LET nTip == Len(m_chain) - 1
       IN  /\ m_chain' = SubSeq(m_chain, 1, nTip)
           /\ coinsTip' = [o \in Outpoints |->
                  IF spentCache[o] # NoCoin /\ spentCache[o].spent_height = nTip
                  THEN spentCache[o].coin
                  ELSE IF coinsTip[o] # NoCoin /\ coinsTip[o].nHeight = nTip
                  THEN NoCoin
                  ELSE coinsTip[o]]
           /\ spentCache' = [o \in Outpoints |->
                  IF spentCache[o] # NoCoin /\ spentCache[o].spent_height = nTip
                  THEN NoCoin ELSE spentCache[o]]
    /\ writer' = [writer EXCEPT !.pc = "wrote"]
    /\ UNCHANGED <<fVerifyingDB, req, res, cs_main, staker, ps>>

\* A block of another branch is connected; it may spend the kernel coin.
W_ConnectBlock ==
    /\ writer.pc = "locked"
    /\ Len(m_chain) <= MaxHeight
    /\ LET h == Len(m_chain)
       IN  /\ m_chain' = Append(m_chain, [MkBlock(h) EXCEPT !.nTime = @ + 1])
           /\ \E fSpend \in BOOLEAN :
                IF fSpend /\ LiveUnspentIn(coinsTip, req.prevout)
                THEN /\ coinsTip' = [coinsTip EXCEPT ![req.prevout] = NoCoin]
                     /\ spentCache' = [spentCache EXCEPT ![req.prevout] =
                            [coin |-> coinsTip[req.prevout], spent_height |-> h]]
                ELSE UNCHANGED <<coinsTip, spentCache>>
    /\ writer' = [writer EXCEPT !.pc = "wrote"]
    /\ UNCHANGED <<fVerifyingDB, req, res, cs_main, staker, ps>>

W_Unlock ==
    /\ writer.pc = "wrote"
    /\ cs_main' = "free"
    /\ writer' = [pc |-> "idle", nWrites |-> writer.nWrites + 1]
    /\ UNCHANGED <<m_chain, coinsTip, spentCache, fVerifyingDB, req, res, staker, ps>>

NextConc ==
    \/ K_Lock \/ K_GetCoin \/ K_ChainLookup \/ K_Finish
    \/ W_Lock \/ W_DisconnectTip \/ W_ConnectBlock \/ W_Unlock

SpecConc == InitConc /\ [][NextConc]_vars

---------------------------------------------------------------------------
\* GetPoSKernelPS

\* lines 27-47, for the encodings of the model's blocks: a mantissa that
\* divides 0xffff and a shift of at most 29, where the double is an integer.
GetDifficulty(blockindex) ==
    LET nShift == (blockindex.nBits \div (2 ^ 24)) % 256
        nMantissa == blockindex.nBits % (2 ^ 24)
    IN  (65535 \div nMantissa) * (256 ^ (29 - nShift))

\* Chains of nLen blocks: every nPowEvery-th block is proof-of-work (none
\* when 0), block times advance by nTimeStep, and the upper half of the
\* chain is at difficulty 256 when fHarder.
PSChain(nLen, nPowEvery, nTimeStep, fHarder) ==
    [i \in 1..nLen |->
        [nHeight |-> i - 1,
         nTime |-> 1 + nTimeStep * (i - 1),
         nBits |-> IF fHarder /\ 2 * i > nLen THEN BitsDiff256 ELSE BitsDiff1,
         fProofOfStake |-> (nPowEvery = 0 \/ (i - 1) % nPowEvery # 0),
         bnStakeModifier |-> 0]]

\* GetPoSKernelPS is called on the tip of a chain.
InitPS ==
    \E nLen \in 1..MaxChainLen, nPowEvery \in {0, 2, MaxChainLen \div 2}, nTimeStep \in {0, 1},
       fHarder \in BOOLEAN :
        /\ m_chain = PSChain(nLen, nPowEvery, nTimeStep, fHarder)
        /\ coinsTip = [o \in Outpoints |-> NoCoin]
        /\ spentCache = [o \in Outpoints |-> NoCoin]
        /\ fVerifyingDB = FALSE
        /\ req = [kind |-> "GetPoSKernelPS", pindex |-> nLen - 1]
        /\ res = NoRes
        /\ cs_main = "free"
        /\ staker = IdleStaker
        /\ writer = IdleWriter
        /\ ps = [pc |-> "start"]

\* A block index pointer is a height of m_chain, or NullPtr.
NullPtr == -1
Deref(p) == m_chain[p + 1]
\* pindex->pprev
Pprev(p) == IF p = 0 THEN NullPtr ELSE p - 1

\* lines 51-59. dStakeKernelsTriedAvg is kept in units of 4294967296.0.
\* collected is the set of proof-of-stake blocks the loop has taken.
PS_Start ==
    /\ ps.pc = "start"
    /\ cs_main = "free"
    /\ cs_main' = "GetPoSKernelPS"
    /\ ps' = [pc |-> "loop", pindex |-> req.pindex, pindexPrevStake |-> NullPtr,
              nBestHeight |-> Deref(req.pindex).nHeight,
              dStakeKernelsTriedAvg |-> 0, nStakesHandled |-> 0, nStakesTime |-> 0,
              collected |-> {}, nIterations |-> 0]
    /\ UNCHANGED <<m_chain, coinsTip, spentCache, fVerifyingDB, req, res, staker, writer>>

\* line 61: while (pindex && nStakesHandled < nPoSInterval)
LoopContinuesLE(pindex, nStakesHandled) ==
    pindex # NullPtr /\ nStakesHandled <= nPoSInterval
LoopContinues(pindex, nStakesHandled) ==
    pindex # NullPtr /\ nStakesHandled < nPoSInterval

\* lines 62-70: one pass of the loop body
PS_Iterate ==
    /\ ps.pc = "loop"
    /\ LoopContinues(ps.pindex, ps.nStakesHandled)
    /\ LET pindex == Deref(ps.pindex)
           fPair == pindex.fProofOfStake /\ ps.pindexPrevStake # NullPtr
       IN  ps' = [ps EXCEPT
                    !.dStakeKernelsTriedAvg =
                        IF fPair THEN @ + GetDifficulty(Deref(ps.pindexPrevStake)) ELSE @,
                    !.nStakesTime =
                        IF fPair THEN @ + (Deref(ps.pindexPrevStake).nTime - pindex.nTime)
                        ELSE @,
                    !.nStakesHandled = IF fPair THEN @ + 1 ELSE @,
                    !.pindexPrevStake = IF pindex.fProofOfStake THEN ps.pindex ELSE @,
                    !.collected = IF pindex.fProofOfStake THEN @ \cup {ps.pindex} ELSE @,
                    !.pindex = Pprev(ps.pindex),
                    !.nIterations = @ + 1]
    /\ UNCHANGED <<m_chain, coinsTip, spentCache, fVerifyingDB, req, res, cs_main, staker, writer>>

\* lines 73-81: the result is the fraction num / den of 4294967296.0, zero
\* when nStakesTime is zero.
PS_Return ==
    /\ ps.pc = "loop"
    /\ ~LoopContinues(ps.pindex, ps.nStakesHandled)
    /\ ps' = [ps EXCEPT !.pc = "done"]
    /\ res' = IF ps.nStakesTime # 0
              THEN [num |-> ps.dStakeKernelsTriedAvg * (StakeTimestampMask + 1),
                    den |-> ps.nStakesTime]
              ELSE [num |-> 0, den |-> 1]
    /\ cs_main' = "free"
    /\ UNCHANGED <<m_chain, coinsTip, spentCache, fVerifyingDB, req, staker, writer>>

NextPS == PS_Start \/ PS_Iterate \/ PS_Return

\* The call runs on its own thread and is not suspended for ever.
SpecPS == InitPS /\ [][NextPS]_vars /\ WF_vars(NextPS)

---------------------------------------------------------------------------
\* What the claims speak of, stated on the call's arguments and the chain state

PosCalled == res # NoRes /\ req.kind = "CheckProofOfStake"
KernelCalled == res # NoRes /\ req.kind = "CheckKernel"

LiveUnspent(o) == coinsTip[o] # NoCoin /\ ~coinsTip[o].fSpent
Archived(o) == spentCache[o] # NoCoin
WithinReorgBound(o) ==
    req.pindexPrev.nHeight - spentCache[o].spent_height <= MAX_REORG_DEPTH \/ fVerifyingDB

\* The coin an outpoint stands for: the live one, else the archived one.
CoinOf(o) == IF LiveUnspent(o) THEN coinsTip[o] ELSE spentCache[o].coin

RequiredDepth == Min(StakeMinConfirmations - 1, req.pindexPrev.nHeight \div 2)
DepthOf(coin) == req.pindexPrev.nHeight - coin.nHeight

WellFormed == req.tx.fCoinStake /\ Len(req.tx.vin) >= 1
KernelResolved ==
    \/ LiveUnspent(req.prevout)
    \/ (Archived(req.prevout) /\ WithinReorgBound(req.prevout))

\* Checks 1 to 4 of the validator: structure, coin resolution, type, ancestor.
ChecksOneToFour ==
    /\ WellFormed
    /\ KernelResolved
    /\ CoinOf(req.prevout).nType = OUTPUT_STANDARD
    /\ ChainAt(m_chain, CoinOf(req.prevout).nHeight) # NullIndex

\* Checks 1 to 6: and depth, and script verification of input 0.
ChecksOneToSix ==
    /\ ChecksOneToFour
    /\ DepthOf(CoinOf(req.prevout)) >= RequiredDepth
    /\ VerifyScript(req.tx.vin[1].scriptSig, CoinOf(req.prevout).out.scriptPubKey)

\* What the staker oracle requires of the coin before the kernel hash.
KernelCoinUsable ==
    /\ LiveUnspent(req.prevout)
    /\ coinsTip[req.prevout].nType = OUTPUT_STANDARD
    /\ ChainAt(m_chain, coinsTip[req.prevout].nHeight) # NullIndex

KernelBlockTime == ChainAt(m_chain, CoinOf(req.prevout).nHeight).nTime
TimeOK == req.nTime >= KernelBlockTime
ValidCompact ==
    LET sc == SetCompact(req.nBits)
    IN  ~sc.fNegative /\ ~sc.fOverflow /\ sc.bnTarget # 0

HashPos == Hash(req.pindexPrev.bnStakeModifier, KernelBlockTime, req.prevout, req.nTime)
\* target * value as a non-negative integer of any size
WeightedTarget == SetCompact(req.nBits).bnTarget * CoinOf(req.prevout).out.nValue

RECURSIVE SumSeq(_)
SumSeq(q) == IF q = <<>> THEN 0 ELSE Head(q) + SumSeq(Tail(q))

KernelScript == CoinOf(req.prevout).out.scriptPubKey
ExtraResolves(k) ==
    LiveUnspent(req.tx.vin[k].prevout) \/ Archived(req.tx.vin[k].prevout)
ExtraGood(k) ==
    /\ ExtraResolves(k)
    /\ CoinOf(req.tx.vin[k].prevout).nType = OUTPUT_STANDARD
    /\ CoinOf(req.tx.vin[k].prevout).out.scriptPubKey = KernelScript
ExtrasOK == \A k \in 2..Len(req.tx.vin) : ExtraGood(k)
OutsOK == \A i \in 1..Len(req.tx.vpout) : req.tx.vpout[i].nType \in {OUTPUT_STANDARD, OUTPUT_DATA}
SumInputs == SumSeq([k \in 1..Len(req.tx.vin) |-> CoinOf(req.tx.vin[k].prevout).out.nValue])
SumOutputsToKernelScript ==
    SumSeq([i \in 1..Len(req.tx.vpout) |->
              IF /\ req.tx.vpout[i].nType = OUTPUT_STANDARD
                 /\ req.tx.vpout[i].scriptPubKey = KernelScript
              THEN req.tx.vpout[i].nValue ELSE 0])
SplitPasses ==
    HasIsCoinstakeOp(KernelScript) =>
        (ExtrasOK /\ OutsOK /\ SumOutputsToKernelScript >= SumInputs)

---------------------------------------------------------------------------
\* C1: every coinstake whose other checks all pass is accepted when
\* hash_pos <= target * value, and rejected as check-kernel-failed at DoS
\* weight 1 when hash_pos > target * value.
C1_KernelTargetDecides ==
    (PosCalled /\ ChecksOneToSix /\ TimeOK /\ ValidCompact /\ SplitPasses) =>
        /\ (HashPos <= WeightedTarget) => res.ret
        /\ (HashPos > WeightedTarget) =>
              (~res.ret /\ res.state.reason = "check-kernel-failed" /\ res.state.dos = DOS_1)

\* C2: the decision of CheckStakeKernelHash on hash_pos > weighted_target is
\* the one taken with target * stake_amount as an integer of any size, in the
\* validator and in the staker oracle.
C2_ComparisonIsArbitraryPrecision ==
    /\ (PosCalled /\ ChecksOneToSix /\ TimeOK /\ ValidCompact) =>
          ((res.state.reason = "check-kernel-failed") <=> (HashPos > WeightedTarget))
    /\ (KernelCalled /\ req.fBlockTimePtr /\ KernelCoinUsable
          /\ DepthOf(CoinOf(req.prevout)) >= RequiredDepth /\ TimeOK /\ ValidCompact) =>
          ((~res.ret) <=> (HashPos > WeightedTarget))

\* C3: in CheckProofOfStake and in CheckKernel the depth check passes iff
\* d >= min(stake_min_confirmations - 1, pindexPrev.height / 2) for the kernel
\* coin at height pindexPrev.height - d; failing it, CheckProofOfStake rejects
\* as invalid-stake-depth at DoS weight 100 and CheckKernel returns false; no
\* accepted kernel has coin.height > pindexPrev.height - required_depth.
C3_DepthRule ==
    /\ (PosCalled /\ ChecksOneToFour) =>
          /\ (DepthOf(CoinOf(req.prevout)) >= RequiredDepth)
                <=> (res.state.reason # "invalid-stake-depth")
          /\ (DepthOf(CoinOf(req.prevout)) < RequiredDepth)
                => (~res.ret /\ res.state.dos = DOS_100)
    /\ (PosCalled /\ res.ret) =>
          CoinOf(req.prevout).nHeight <= req.pindexPrev.nHeight - RequiredDepth
    /\ (KernelCalled /\ KernelCoinUsable) =>
          /\ (DepthOf(coinsTip[req.prevout]) >= RequiredDepth)
                <=> (res.fBlockTimeSet \/ res.fUndefined)
          /\ (DepthOf(coinsTip[req.prevout]) < RequiredDepth) => ~res.ret
    /\ (KernelCalled /\ res.ret /\ ~res.fUndefined) =>
          coinsTip[req.prevout].nHeight <= req.pindexPrev.nHeight - RequiredDepth

\* A coinstake rejected for depth where the chain is short enough for
\* pindexPrev.height / 2 to be the required depth.
C3_Witness ==
    /\ PosCalled
    /\ res.state.reason = "invalid-stake-depth"
    /\ req.pindexPrev.nHeight \div 2 < StakeMinConfirmations - 1
    /\ DepthOf(CoinOf(req.prevout)) = RequiredDepth - 1

\* C4: a kernel coin missing or spent in the live view and present in the
\* spent cache is resolved iff pindexPrev.height - spent_height <=
\* MAX_REORG_DEPTH or fVerifyingDB; otherwise the call rejects as
\* invalid-prevout at DoS weight 100. A resolved archived kernel sets
\* BLOCK_STAKE_KERNEL_SPENT; a kernel found unspent in the live view never does.
C4_ReorgBound ==
    (PosCalled /\ WellFormed) =>
        /\ (~LiveUnspent(req.prevout) /\ Archived(req.prevout)) =>
              /\ WithinReorgBound(req.prevout)
                    <=> (BLOCK_STAKE_KERNEL_SPENT \in res.state.nFlags)
              /\ ~WithinReorgBound(req.prevout) =>
                    (~res.ret /\ res.state.reason = "invalid-prevout"
                        /\ res.state.dos = DOS_100)
        /\ LiveUnspent(req.prevout) => BLOCK_STAKE_KERNEL_SPENT \notin res.state.nFlags

\* An archived kernel spent exactly MAX_REORG_DEPTH below pindexPrev is
\* accepted with the flag set.
C4_Witness ==
    /\ PosCalled
    /\ ~LiveUnspent(req.prevout) /\ Archived(req.prevout)
    /\ ~fVerifyingDB
    /\ req.pindexPrev.nHeight - spentCache[req.prevout].spent_height = MAX_REORG_DEPTH
    /\ res.ret
    /\ BLOCK_STAKE_KERNEL_SPENT \in res.state.nFlags

\* C5: with a coinstake-op kernel script, CheckProofOfStake accepts only if
\* every extra input resolves to a coin with the kernel script and the
\* Standard outputs paid to that script sum to at least the sum of all input
\* values; the first offending extra input, when it is a Standard coin with
\* another script, is rejected as mixed-prevout-scripts, and a shortfall as
\* verify-amount-script-failed, both at DoS weight 100.
C5_CoinstakeOpSplit ==
    (PosCalled /\ ChecksOneToSix /\ HasIsCoinstakeOp(KernelScript)
        /\ res.state.reason # "check-kernel-failed") =>
        /\ res.ret => (ExtrasOK /\ SumOutputsToKernelScript >= SumInputs)
        /\ (ExtrasOK /\ OutsOK) =>
              /\ res.ret <=> (SumOutputsToKernelScript >= SumInputs)
              /\ ~res.ret => (res.state.reason = "verify-amount-script-failed"
                                /\ res.state.dos = DOS_100)
        /\ \A k \in 2..Len(req.tx.vin) :
              (/\ \A j \in 2..(k - 1) : ExtraGood(j)
               /\ ExtraResolves(k)
               /\ CoinOf(req.tx.vin[k].prevout).nType = OUTPUT_STANDARD
               /\ CoinOf(req.tx.vin[k].prevout).out.scriptPubKey # KernelScript)
              => (~res.ret /\ res.state.reason = "mixed-prevout-scripts"
                    /\ res.state.dos = DOS_100)

\* A coinstake with two extra inputs of the kernel script whose outputs to
\* that script fall one short of the inputs' sum.
C5_Witness ==
    /\ PosCalled
    /\ ChecksOneToSix
    /\ HasIsCoinstakeOp(KernelScript)
    /\ Len(req.tx.vin) = 3
    /\ ExtrasOK /\ OutsOK
    /\ SumOutputsToKernelScript = SumInputs - 1
    /\ res.state.reason = "verify-amount-script-failed"

\* C6: a coinstake that passes checks 1 to 6 with block_time below the kernel
\* block's time is rejected, and the kind reported on the validation state is
\* the nTime violation.
C6_TimeViolationReported ==
    (PosCalled /\ ChecksOneToSix /\ ~TimeOK) =>
        (~res.ret /\ res.state.reason = "nTime violation")

\* C7: a negative, overflowing or zero compact target is rejected at DoS
\* weight 100.
C7_InvalidCompactIsDos100 ==
    (PosCalled /\ ChecksOneToSix /\ TimeOK /\ ~ValidCompact) =>
        (~res.ret /\ res.state.dos = DOS_100)

\* C8: CheckKernel succeeds iff prevout is an unspent Standard coin of the
\* live view, chain[coin.height] exists, the depth rule holds, nTime >= the
\* kernel block's time, the compact target is valid and kernel_hash <=
\* target * value; on success it reports the kernel block's time.
C8_StakerOracle ==
    (KernelCalled /\ req.fBlockTimePtr) =>
        /\ res.ret <=>
              (/\ KernelCoinUsable
               /\ DepthOf(coinsTip[req.prevout]) >= RequiredDepth
               /\ TimeOK /\ ValidCompact
               /\ HashPos <= WeightedTarget)
        /\ res.ret => (res.fBlockTimeSet /\ res.nBlockTime = KernelBlockTime)

\* C9: every coin lookup and every active-chain lookup of the kernel checks
\* is made holding the chain-wide mutex; CheckKernel holds it around its
\* UTXO lookup and has released it before the kernel hash, so the coin and
\* the ancestor block it uses come from the same chain state.
C9_LookupsUnderChainLock ==
    /\ staker.pc \in {"unlocked", "have_index"} => staker.fLockedAtCoin
    /\ staker.pc = "have_index" =>
          /\ staker.fLockedAtIndex
          /\ staker.nWritesAtCoin = staker.nWritesAtIndex
          /\ ~staker.fWriterInside
    /\ staker.pc = "have_index" => cs_main # "staker"

\* The consequence alone: the ancestor block is looked up in the chain state
\* the coin was read from.
C9_SameChainState ==
    staker.pc = "have_index" =>
        (staker.nWritesAtCoin = staker.nWritesAtIndex /\ ~staker.fWriterInside)

\* The proof-of-stake blocks from the start block back, newest first.
RECURSIVE PoSBack(_)
PoSBack(p) ==
    IF p = NullPtr THEN <<>>
    ELSE IF Deref(p).fProofOfStake THEN <<p>> \o PoSBack(Pprev(p))
    ELSE PoSBack(Pprev(p))

\* The first n elements of a sequence, all of it when it is shorter.
Prefix(q, n) == SubSeq(q, 1, Min(n, Len(q)))

\* The sums over the consecutive pairs of the proof-of-stake blocks q.
PairWork(q) == SumSeq([i \in 1..(Len(q) - 1) |-> GetDifficulty(Deref(q[i]))])
PairTime(q) == SumSeq([i \in 1..(Len(q) - 1) |-> Deref(q[i]).nTime - Deref(q[i + 1]).nTime])

C10_Sums ==
    /\ ps.pc \in {"loop", "done"} =>
          /\ ps.nStakesHandled <= nPoSInterval
          /\ Cardinality(ps.collected) <= nPoSInterval + 1
          /\ ps.nIterations + ps.pindex = req.pindex
    /\ ps.pc = "done" =>
          LET q == Prefix(PoSBack(req.pindex), nPoSInterval + 1)
          IN  /\ ps.collected = {q[i] : i \in 1..Len(q)}
              /\ ps.dStakeKernelsTriedAvg = PairWork(q)
              /\ ps.nStakesTime = PairTime(q)
              /\ ps.nStakesTime = 0 => res.num = 0
              /\ ps.nStakesTime # 0 =>
                    (res.num = PairWork(q) * (StakeTimestampMask + 1)
                        /\ res.den = PairTime(q))

=============================================================================
